---- MODULE Spec2Model ----
(***************************************************************************)
(* Model of testcode2's extraction-and-comparison engine:                  *)
(*   lib/testcode2/validation.py  Status, Tolerance.validate, compare_data *)
(*   lib/testcode2/util.py        try_floatify, extract_tagged_data,       *)
(*                                dict_table_string                        *)
(*                                                                         *)
(* Representation.                                                         *)
(*  - A Python string is a tuple of one-character strings.                 *)
(*  - A Python scalar is a record [t, n, d, s]: t = "num" is the rational  *)
(*    n/d (d > 0), t = "inf" is the float infinity of sign n, t = "nan" is *)
(*    the float NaN and t = "str" is the string s.                         *)
(*  - A threshold of a Tolerance is None or the number n/ThrDen.           *)
(*  - A message is the tuple of the pieces it is concatenated from; the    *)
(*    numbers that '%.2e' prints are kept as the piece "%.2e".             *)
(*  - A raised exception is an outcome record [exc |-> name].              *)
(***************************************************************************)
EXTENDS Integers, Sequences, FiniteSets, TLC

VARIABLES pc, op, args, res

vars == <<pc, op, args, res>>

\* ------------------------------------------------------------------------
\* Bounds of the model
\* ------------------------------------------------------------------------
MaxBools == 3      \* longest boolean collection given to Status
MaxNum == 2        \* numeric values given to validate are -MaxNum..MaxNum
MaxThr == 2        \* threshold numerators are -MaxThr..MaxThr
ThrDen == 2        \* thresholds are multiples of 1/ThrDen
MaxLen == 1        \* longest value sequence of a DataSet given to compare_data
MaxWords == 3      \* most words after the first word of a tagged line
MaxLines == 2      \* most lines read by extract_tagged_data
MaxRows == 4       \* most rows of a table

\* ------------------------------------------------------------------------
\* Python scalars and float arithmetic
\* ------------------------------------------------------------------------
Num(i) == [t |-> "num", n |-> i, d |-> 1, s |-> <<>>]
Rat(i, j) == [t |-> "num", n |-> i, d |-> j, s |-> <<>>]
Inf(sign) == [t |-> "inf", n |-> sign, d |-> 1, s |-> <<>>]
NaN == [t |-> "nan", n |-> 0, d |-> 1, s |-> <<>>]
Str(chars) == [t |-> "str", n |-> 0, d |-> 1, s |-> chars]

AbsInt(i) == IF i < 0 THEN -i ELSE i
Sign(i) == IF i < 0 THEN -1 ELSE IF i = 0 THEN 0 ELSE 1

\* FSub with the sign of the second operand lost: x + y
FSub_added(x, y) ==
    IF x.t = "nan" \/ y.t = "nan" THEN NaN
    ELSE IF x.t = "inf" /\ y.t = "inf"
         THEN (IF x.n = y.n THEN Inf(x.n) ELSE NaN)
    ELSE IF x.t = "inf" THEN Inf(x.n)
    ELSE IF y.t = "inf" THEN Inf(y.n)
    ELSE Rat(x.n * y.d + y.n * x.d, x.d * y.d)

\* x - y on floats
FSub(x, y) ==
    IF x.t = "nan" \/ y.t = "nan" THEN NaN
    ELSE IF x.t = "inf" /\ y.t = "inf"
         THEN (IF x.n = y.n THEN NaN ELSE Inf(x.n))
    ELSE IF x.t = "inf" THEN Inf(x.n)
    ELSE IF y.t = "inf" THEN Inf(-y.n)
    ELSE Rat(x.n * y.d - y.n * x.d, x.d * y.d)

\* abs(x) on floats
FAbs(x) ==
    IF x.t = "nan" THEN NaN
    ELSE IF x.t = "inf" THEN Inf(1)
    ELSE Rat(AbsInt(x.n), x.d)

\* x / y on floats, y # 0
FDiv(x, y) ==
    IF x.t = "nan" \/ y.t = "nan" THEN NaN
    ELSE IF x.t = "inf" /\ y.t = "inf" THEN NaN
    ELSE IF x.t = "inf" THEN Inf(x.n * Sign(y.n))
    ELSE IF y.t = "inf" THEN Num(0)
    ELSE Rat(x.n * y.d * Sign(y.n), x.d * AbsInt(y.n))

\* x < y on floats: every comparison with NaN is false
FLess(x, y) ==
    IF x.t = "nan" \/ y.t = "nan" THEN FALSE
    ELSE IF x.t = "inf" THEN x.n < 0 /\ ~(y.t = "inf" /\ y.n < 0)
    ELSE IF y.t = "inf" THEN y.n > 0
    ELSE x.n * y.d < y.n * x.d

\* x == y in Python: NaN equals nothing, a string equals no float
PyEq(x, y) ==
    IF x.t = "str" \/ y.t = "str" THEN x.t = y.t /\ x.s = y.s
    ELSE IF x.t = "nan" \/ y.t = "nan" THEN FALSE
    ELSE IF x.t = "inf" \/ y.t = "inf" THEN x.t = y.t /\ x.n = y.n
    ELSE x.n * y.d = y.n * x.d

IsZero(x) == x.t = "num" /\ x.n = 0

\* ------------------------------------------------------------------------
\* testcode2.compatibility (not part of the sources at hand)
\* ------------------------------------------------------------------------
compat_all(bools) == \A i \in DOMAIN bools : bools[i]

compat_any(bools) == \E i \in DOMAIN bools : bools[i]

\* compat.isnan raises TypeError on a value that is not a number
isnan_raises(x) == x.t = "str"

isnan(x) == x.t = "nan"

\* ------------------------------------------------------------------------
\* validation.Status
\* ------------------------------------------------------------------------
StatusPass == 0
StatusPartial == 1
StatusFail == 2

StatusValues == {StatusPass, StatusPartial, StatusFail}

\* Status_init with any where the code has all
Status_init_any(bools) ==
    IF compat_any(bools) THEN StatusPass
    ELSE IF compat_all(bools) THEN StatusPartial
    ELSE StatusFail

Status_init(bools) ==
    IF compat_all(bools) THEN StatusPass
    ELSE IF compat_any(bools) THEN StatusPartial
    ELSE StatusFail

\* Status_add returning the minimum level
Status_add_min(self, other) == IF self <= other THEN self ELSE other

\* Status_add reporting two different levels as a partial pass
Status_add_partial(self, other) == IF self = other THEN self ELSE StatusPartial

Status_add(self, other) == IF self >= other THEN self ELSE other

passed(status) == status = StatusPass

\* ------------------------------------------------------------------------
\* validation.Tolerance
\* ------------------------------------------------------------------------
None == [set |-> FALSE, n |-> 0]
Thr(i) == [set |-> TRUE, n |-> i]

\* the float a threshold holds
ThrVal(thr) == Rat(thr.n, ThrDen)

\* "if self.absolute:" - None and 0 are both false
Truthy(thr) == thr.set /\ thr.n # 0

Tolerance(absolute, relative) == [absolute |-> absolute, relative |-> relative]

\* "if key: msg = '%s: %s' % (key, msg)"
KeyPrefix(key, msg) == IF key # "" THEN <<key, ": ">> \o msg ELSE msg

\* RelativeErr without the infinite error of a zero benchmark
RelativeErr_zero(diff, benchmark_val) ==
    IF IsZero(benchmark_val) THEN Num(0)
    ELSE FAbs(FDiv(diff, benchmark_val))

\* the error of the relative check
RelativeErr(diff, benchmark_val) ==
    IF IsZero(benchmark_val) /\ IsZero(diff) THEN Num(0)
    ELSE IF IsZero(benchmark_val) THEN Inf(1)
    ELSE FAbs(FDiv(diff, benchmark_val))

\* the body of the try block, entered when no TypeError is raised
ValidateNumeric(self, test_val, benchmark_val) ==
    IF isnan(test_val) \/ isnan(benchmark_val)
    THEN [status |-> Status_init(<<FALSE>>), msg |-> <<"cannot compare NaNs.">>]
    ELSE
      LET diff == FSub(test_val, benchmark_val)
          abs_err == FAbs(diff)
          abs_passed == FLess(abs_err, ThrVal(self.absolute))
          s0 == Status_init(<<TRUE>>)
          m0 == <<"values are within tolerance.">>
          s1 == IF Truthy(self.absolute)
                THEN Status_add(s0, Status_init(<<abs_passed>>)) ELSE s0
          m1 == IF Truthy(self.absolute) /\ ~abs_passed
                THEN <<"absolute error ", "%.2e", " greater than ", "%.2e", ".">>
                ELSE m0
          rel_err == RelativeErr(diff, benchmark_val)
          rel_passed == FLess(rel_err, ThrVal(self.relative))
          s2 == IF Truthy(self.relative)
                THEN Status_add(s1, Status_init(<<rel_passed>>)) ELSE s1
          m2 == IF Truthy(self.relative) /\ ~rel_passed
                THEN <<"relative error ", "%.2e", " greater than ", "%.2e", ".">>
                ELSE m1
      IN [status |-> s2, msg |-> m2]

\* the TypeError is raised by isnan or by the subtraction, before status
\* or msg are assigned in the try block
ValidateRaisesTypeError(test_val, benchmark_val) ==
    IF isnan_raises(test_val) THEN TRUE
    ELSE IF isnan(test_val) THEN FALSE
    ELSE benchmark_val.t = "str"

\* validate with the test of the except branch inverted
validate_inverted(self, test_val, benchmark_val, key) ==
    LET r == IF ValidateRaisesTypeError(test_val, benchmark_val)
             THEN IF PyEq(test_val, benchmark_val)
                  THEN [status |-> Status_init(<<FALSE>>),
                        msg |-> <<"values are different.">>]
                  ELSE [status |-> Status_init(<<TRUE>>),
                        msg |-> <<"values are within tolerance.">>]
             ELSE ValidateNumeric(self, test_val, benchmark_val)
    IN [status |-> r.status, msg |-> KeyPrefix(key, r.msg)]

validate(self, test_val, benchmark_val, key) ==
    LET r == IF ValidateRaisesTypeError(test_val, benchmark_val)
             THEN IF ~PyEq(test_val, benchmark_val)
                  THEN [status |-> Status_init(<<FALSE>>),
                        msg |-> <<"values are different.">>]
                  ELSE [status |-> Status_init(<<TRUE>>),
                        msg |-> <<"values are within tolerance.">>]
             ELSE ValidateNumeric(self, test_val, benchmark_val)
    IN [status |-> r.status, msg |-> KeyPrefix(key, r.msg)]

\* ------------------------------------------------------------------------
\* validation.compare_data
\* ------------------------------------------------------------------------
\* Field names in sorted order.  A DataSet is a function from a set of field
\* names to value sequences; the dictionary is walked in this order.
FieldSeq == <<"a", "b">>

Fields == {FieldSeq[i] : i \in DOMAIN FieldSeq}

\* ignore_fields=None, and ignore_fields given as a list of field names
NoFields == [given |-> FALSE, fields |-> <<>>]
FieldList(fields) == [given |-> TRUE, fields |-> fields]

\* the argument of pop: the code passes the one-element list [field]
PyList(item) == [list |-> TRUE, item |-> item]

\* dict.pop(key) without default: hashing a list raises TypeError, a key
\* that is absent raises KeyError
dict_pop(data_dict, key) ==
    IF key.list THEN [exc |-> "TypeError", dict |-> data_dict]
    ELSE IF key.item \notin DOMAIN data_dict
         THEN [exc |-> "KeyError", dict |-> data_dict]
    ELSE [exc |-> "",
          dict |-> [k \in DOMAIN data_dict \ {key.item} |-> data_dict[k]]]

RECURSIVE PopIgnored(_, _, _)
\* "for field in ignore_fields: benchmark.pop([field]); test.pop([field])"
PopIgnored(benchmark, test, fields) ==
    IF fields = <<>> THEN [exc |-> "", benchmark |-> benchmark, test |-> test]
    ELSE LET b == dict_pop(benchmark, PyList(Head(fields)))
             t == dict_pop(test, PyList(Head(fields)))
         IN IF b.exc # "" THEN [exc |-> b.exc, benchmark |-> benchmark, test |-> test]
            ELSE IF t.exc # "" THEN [exc |-> t.exc, benchmark |-> b.dict, test |-> test]
            ELSE PopIgnored(b.dict, t.dict, Tail(fields))

\* sorted(data_dict.keys())
SortedKeys(data_dict) == SelectSeq(FieldSeq, LAMBDA k : k \in DOMAIN data_dict)

\* nitems taking the length of the key where the code takes that of the value
nitems_keys(data_dict) ==
    [i \in 1..Len(SortedKeys(data_dict)) |-> 1]

\* [len(val) for (key, val) in sorted(data_dict.items())]
nitems(data_dict) ==
    [i \in 1..Len(SortedKeys(data_dict)) |-> Len(data_dict[SortedKeys(data_dict)[i]])]

\* "tolerances[key] if key in tolerances.keys() else default_tolerance"
TolFor(key, default_tolerance, tolerances) ==
    IF key \in DOMAIN tolerances THEN tolerances[key] ELSE default_tolerance

RECURSIVE CompareField(_, _, _, _, _, _)
\* "for ind in range(len(benchmark[key]))", from position ind on; acc is
\* the running (status, msg list) and the number of calls of validate.
\* test[key] raises KeyError and test[key][ind] raises IndexError where the
\* test DataSet has no such entry.
CompareField(benchmark, test, tol, key, ind, acc) ==
    IF acc.exc # "" \/ ind > Len(benchmark[key]) THEN acc
    ELSE IF key \notin DOMAIN test THEN [acc EXCEPT !.exc = "KeyError"]
    ELSE IF ind > Len(test[key]) THEN [acc EXCEPT !.exc = "IndexError"]
    ELSE LET r == validate(tol, test[key][ind], benchmark[key][ind], key)
             status == Status_add(acc.status, r.status)
             msg == IF ~passed(r.status) /\ r.msg # <<>>
                    THEN Append(acc.msg, r.msg) ELSE acc.msg
         IN CompareField(benchmark, test, tol, key, ind + 1,
                         [exc |-> "", status |-> status, msg |-> msg,
                          calls |-> acc.calls + 1])

RECURSIVE CompareKeys(_, _, _, _, _, _)
\* "for key in benchmark.keys()"
CompareKeys(benchmark, test, default_tolerance, tolerances, keys, acc) ==
    IF keys = <<>> THEN acc
    ELSE CompareKeys(benchmark, test, default_tolerance, tolerances, Tail(keys),
            CompareField(benchmark, test,
                         TolFor(Head(keys), default_tolerance, tolerances),
                         Head(keys), 1, acc))

RECURSIVE Join(_)
\* '\n'.join(msg)
Join(msgs) ==
    IF msgs = <<>> THEN <<>>
    ELSE IF Len(msgs) = 1 THEN msgs[1]
    ELSE msgs[1] \o <<"\n">> \o Join(Tail(msgs))

DifferentSetsMsg == <<"Different sets of data extracted from benchmark and test.">>

\* what a call that raises leaves: no (comparable, status, msg)
Raised(exc, calls) ==
    [exc |-> exc, comparable |-> FALSE, status |-> StatusFail, msg |-> <<>>,
     calls |-> calls]

\* the shape check and the comparison, after the ignored fields are removed
CompareShaped(benchmark, test, default_tolerance, tolerances) ==
    IF SortedKeys(benchmark) # SortedKeys(test) \/ nitems(benchmark) # nitems(test)
    THEN [exc |-> "", comparable |-> FALSE, status |-> Status_init(<<FALSE>>),
          msg |-> DifferentSetsMsg, calls |-> 0]
    ELSE LET acc == CompareKeys(benchmark, test, default_tolerance, tolerances,
                        SortedKeys(benchmark),
                        [exc |-> "", status |-> Status_init(<<TRUE>>), msg |-> <<>>,
                         calls |-> 0])
         IN IF acc.exc # "" THEN Raised(acc.exc, acc.calls)
            ELSE [exc |-> "", comparable |-> TRUE, status |-> acc.status,
                  msg |-> Join(acc.msg), calls |-> acc.calls]

\* "if ignore_fields:" - None and the empty list are both false
compare_data(benchmark, test, default_tolerance, tolerances, ignore_fields) ==
    LET popped == IF ignore_fields.given /\ ignore_fields.fields # <<>>
                  THEN PopIgnored(benchmark, test, ignore_fields.fields)
                  ELSE [exc |-> "", benchmark |-> benchmark, test |-> test]
    IN IF popped.exc # ""
       THEN Raised(popped.exc, 0)
       ELSE CompareShaped(popped.benchmark, popped.test, default_tolerance, tolerances)

\* ------------------------------------------------------------------------
\* util.try_floatify
\* ------------------------------------------------------------------------
Digits == {"0", "1", "2", "3", "4", "5", "6", "7", "8", "9"}

DigitVal(c) ==
    CASE c = "0" -> 0 [] c = "1" -> 1 [] c = "2" -> 2 [] c = "3" -> 3
      [] c = "4" -> 4 [] c = "5" -> 5 [] c = "6" -> 6 [] c = "7" -> 7
      [] c = "8" -> 8 [] c = "9" -> 9

RECURSIVE DecimalVal(_)
DecimalVal(chars) ==
    IF chars = <<>> THEN 0
    ELSE 10 * DecimalVal(SubSeq(chars, 1, Len(chars) - 1)) + DigitVal(chars[Len(chars)])

\* float(val) succeeds: on the strings of the model, a string of decimal
\* digits, "nan" or "inf" (the strings of the model hold no sign, point,
\* exponent or underscore)
FloatParses(chars) ==
    \/ chars # <<>> /\ \A i \in DOMAIN chars : chars[i] \in Digits
    \/ chars = <<"n", "a", "n">>
    \/ chars = <<"i", "n", "f">>

\* float(val)
ParseFloat(chars) ==
    IF chars = <<"n", "a", "n">> THEN NaN
    ELSE IF chars = <<"i", "n", "f">> THEN Inf(1)
    ELSE Num(DecimalVal(chars))

try_floatify(chars) == IF FloatParses(chars) THEN ParseFloat(chars) ELSE Str(chars)

\* "type(val) is float"
IsFloat(val) == val.t # "str"

\* ------------------------------------------------------------------------
\* str.split and the data_tag regular expression
\* ------------------------------------------------------------------------
Whitespace == {" ", "\t"}

RECURSIVE SplitFrom(_, _, _, _)
\* line.split(): i is the position read, word the word being read
SplitFrom(line, i, word, words) ==
    IF i > Len(line)
    THEN (IF word = <<>> THEN words ELSE Append(words, word))
    ELSE IF line[i] \in Whitespace
         THEN SplitFrom(line, i + 1, <<>>,
                        IF word = <<>> THEN words ELSE Append(words, word))
    ELSE SplitFrom(line, i + 1, Append(word, line[i]), words)

split(line) == SplitFrom(line, 1, <<>>, <<>>)

RECURSIVE SkipSpaces(_, _)
\* the position after the leading " " characters
SkipSpaces(line, i) ==
    IF i <= Len(line) /\ line[i] = " " THEN SkipSpaces(line, i + 1) ELSE i

\* re.compile('^ *%s' % re.escape(data_tag)).match(line)
data_tag_regex_match(data_tag, line) ==
    LET i == SkipSpaces(line, 1)
    IN /\ i + Len(data_tag) - 1 <= Len(line)
       /\ SubSeq(line, i, i + Len(data_tag) - 1) = data_tag

\* ------------------------------------------------------------------------
\* util.extract_tagged_data
\* ------------------------------------------------------------------------
RECURSIVE KeyWords(_, _, _)
\* "for word in words[1:]": the key words read and the last val assigned;
\* bound is false while val is unassigned
KeyWords(words, key, val) ==
    IF words = <<>> THEN [key |-> key, val |-> val]
    ELSE LET v == try_floatify(Head(words))
         IN IF v # Str(Head(words))
            THEN [key |-> key, val |-> [bound |-> TRUE, v |-> v]]
            ELSE KeyWords(Tail(words), Append(key, Head(words)),
                          [bound |-> TRUE, v |-> v])

RECURSIVE JoinKey(_)
\* '_'.join(key)
JoinKey(key) ==
    IF key = <<>> THEN <<>>
    ELSE IF Len(key) = 1 THEN key[1]
    ELSE key[1] \o <<"_">> \o JoinKey(Tail(key))

KeyEnd == {<<"=">>, <<":">>}

\* data[key].append(val) / data[key] = [val]
DictAppend(data, key, val) ==
    IF key \in DOMAIN data
    THEN [data EXCEPT ![key] = Append(@, val)]
    ELSE [k \in DOMAIN data \cup {key} |-> IF k = key THEN <<val>> ELSE data[k]]

\* the body of "for line in data_file.readlines()" for a matching line
TaggedLine(data, line) ==
    LET words == split(line)
        kw == KeyWords(Tail(words), <<>>, [bound |-> FALSE, v |-> NaN])
        key1 == IF kw.key[Len(kw.key)] \in KeyEnd
                THEN SubSeq(kw.key, 1, Len(kw.key) - 1) ELSE kw.key
        key2 == JoinKey(key1)
        key3 == IF <<key2[Len(key2)]>> \in KeyEnd
                THEN SubSeq(key2, 1, Len(key2) - 1) ELSE key2
        key4 == IF key3 = <<>> THEN <<"d", "a", "t", "a">> ELSE key3
    IN IF kw.key = <<>> THEN [exc |-> "IndexError", data |-> data]
       ELSE IF key2 = <<>> THEN [exc |-> "IndexError", data |-> data]
       ELSE IF ~kw.val.bound THEN [exc |-> "UnboundLocalError", data |-> data]
       ELSE [exc |-> "", data |-> DictAppend(data, key4, kw.val.v)]

\* one iteration of the loop over the lines
extract_tagged_line(data_tag, data, line) ==
    IF data_tag_regex_match(data_tag, line) THEN TaggedLine(data, line)
    ELSE [exc |-> "", data |-> data]

\* ------------------------------------------------------------------------
\* util.dict_table_string
\* ------------------------------------------------------------------------
\* head is unassigned until the first header row
NoHead == [bound |-> FALSE, names |-> <<>>]

RECURSIVE RegisterHead_reset(_, _)
\* RegisterHead without "if val not in data_dict"
RegisterHead_reset(data_dict, head) ==
    IF head = <<>> THEN data_dict
    ELSE RegisterHead_reset(
            [k \in DOMAIN data_dict \cup {Head(head).s} |->
                IF k = Head(head).s THEN <<>> ELSE data_dict[k]],
            Tail(head))

RECURSIVE RegisterHead(_, _)
\* "for val in head: if val not in data_dict: data_dict[val] = []"
RegisterHead(data_dict, head) ==
    IF head = <<>> THEN data_dict
    ELSE RegisterHead(
            IF Head(head).s \in DOMAIN data_dict THEN data_dict
            ELSE [k \in DOMAIN data_dict \cup {Head(head).s} |->
                     IF k = Head(head).s THEN <<>> ELSE data_dict[k]],
            Tail(head))

RECURSIVE AppendRow(_, _, _, _)
\* "for (ind, val) in enumerate(dline): data_dict[head[ind]].append(val)"
AppendRow(data_dict, head, dline, ind) ==
    IF ind > Len(dline) THEN [exc |-> "", data_dict |-> data_dict]
    ELSE IF ~head.bound THEN [exc |-> "NameError", data_dict |-> data_dict]
    ELSE IF ind > Len(head.names) THEN [exc |-> "IndexError", data_dict |-> data_dict]
    ELSE AppendRow([data_dict EXCEPT ![head.names[ind].s] = Append(@, dline[ind])],
                   head, dline, ind + 1)

RECURSIVE TableRows(_, _, _)
\* "for dline in data"
TableRows(data, data_dict, head) ==
    IF data = <<>> THEN [exc |-> "", data_dict |-> data_dict]
    ELSE LET dline == Head(data)
         IN IF compat_all([i \in DOMAIN dline |-> ~IsFloat(dline[i])])
            THEN TableRows(Tail(data), RegisterHead(data_dict, dline),
                           [bound |-> TRUE, names |-> dline])
            ELSE LET r == AppendRow(data_dict, head, dline, 1)
                 IN IF r.exc # "" THEN r
                    ELSE TableRows(Tail(data), r.data_dict, head)

EmptyDict == [k \in {} |-> <<>>]

\* table_string is the sequence of its lines (table_string.splitlines())
dict_table_string(table_string) ==
    LET data == [i \in DOMAIN table_string |->
                    [j \in DOMAIN split(table_string[i]) |->
                        try_floatify(split(table_string[i])[j])]]
    IN TableRows(data, EmptyDict, NoHead)

\* ------------------------------------------------------------------------
\* Inputs
\* ------------------------------------------------------------------------
SeqsUpTo(S, n) == UNION {[1..k -> S] : k \in 0..n}

BoolSeqs == SeqsUpTo(BOOLEAN, MaxBools)

StrX == Str(<<"x">>)
StrY == Str(<<"y">>)

ValidateVals ==
    {Num(i) : i \in -MaxNum..MaxNum} \cup {NaN, Inf(1), Inf(-1), StrX, StrY}

Thresholds == {None} \cup {Thr(i) : i \in -MaxThr..MaxThr}

Tolerances == {Tolerance(a, r) : a \in Thresholds, r \in Thresholds}

\* field "a" holds numbers, NaN and strings, field "b" numbers
CmpVals == {Num(0), Num(1), NaN, StrX}
CmpNums == {Num(0), Num(1)}

CmpTolerances ==
    {Tolerance(None, None), Tolerance(Thr(1), None), Tolerance(Thr(3), None),
     Tolerance(None, Thr(1)), Tolerance(Thr(-1), None)}

DataSets ==
    UNION {{[k \in F |-> IF k = "a" THEN sa ELSE sb] :
               sa \in SeqsUpTo(CmpVals, MaxLen), sb \in SeqsUpTo(CmpNums, MaxLen)} :
           F \in SUBSET Fields}

NoTable == [k \in {} |-> Tolerance(None, None)]

ToleranceTables ==
    {NoTable} \cup {[k \in {"a"} |-> t] : t \in {Tolerance(Thr(3), None), Tolerance(None, Thr(-1))}}

\* the calls of compare_data: every pair of DataSets with every default
\* Tolerance, with every table of overrides and with an empty ignore_fields;
\* every DataSet with itself and a non-empty ignore_fields
CompareCalls ==
    [benchmark : DataSets, test : DataSets, default_tolerance : CmpTolerances,
     tolerances : {NoTable}, ignore_fields : {NoFields}]
    \cup
    [benchmark : DataSets, test : DataSets, default_tolerance : {Tolerance(Thr(1), None)},
     tolerances : ToleranceTables \ {NoTable}, ignore_fields : {NoFields}]
    \cup
    [benchmark : DataSets, test : DataSets, default_tolerance : {Tolerance(Thr(3), None)},
     tolerances : {NoTable}, ignore_fields : {FieldList(<<>>)}]
    \cup
    {[benchmark |-> d, test |-> d, default_tolerance |-> Tolerance(Thr(3), None),
      tolerances |-> NoTable, ignore_fields |-> FieldList(f)] :
        d \in DataSets, f \in {<<"a">>, <<"c">>, <<"a", "b">>}}

RECURSIVE JoinWords(_)
\* the words of a line, separated by one space
JoinWords(words) ==
    IF words = <<>> THEN <<>>
    ELSE IF Len(words) = 1 THEN words[1]
    ELSE words[1] \o <<" ">> \o JoinWords(Tail(words))

DataTag == <<"E", ":">>

TagWords == {<<"E">>, <<"=">>, <<":">>, <<"E", ":">>, <<"1">>, <<"2">>}

\* a line: leading whitespace, a first word, the words after it
TaggedLines ==
    {lead \o JoinWords(<<first>> \o rest) :
        lead \in {<<>>, <<" ">>, <<"\t">>},
        first \in {DataTag, <<"U">>},
        rest \in SeqsUpTo(TagWords, MaxWords)}

W(c) == <<c>>

\* the examples of the docstring of dict_table_string
DocTable1 ==
    << JoinWords(<<W("a"), W("b"), W("c"), W("a")>>),
       JoinWords(<<W("1"), W("2"), W("3"), W("7")>>),
       JoinWords(<<W("4"), W("5"), W("6"), W("8")>> ) >>

DocTable2 ==
    << JoinWords(<<W("a"), W("b"), W("c")>>),
       JoinWords(<<W("1"), W("2"), W("3")>>),
       JoinWords(<<W("4"), W("5"), W("6")>>),
       JoinWords(<<W("a"), W("b"), W("d"), W("e")>>),
       JoinWords(<<W("7"), W("8"), W("9"), W("6")>>) >>

\* the empty line, header rows of one and two names, data rows of one and two
\* numbers, and a data row that holds a name
TableLines ==
    {JoinWords(row) :
        row \in {<<>>, <<W("a")>>, <<W("b")>>, <<W("a"), W("b")>>, <<W("b"), W("a")>>,
                 <<W("a"), W("a")>>,
                 <<W("1")>>, <<W("2")>>, <<W("1"), W("2")>>, <<W("1"), W("a")>>}}

TableStrings == SeqsUpTo(TableLines, MaxRows) \cup {DocTable1, DocTable2}

NoRes == <<>>

\* ------------------------------------------------------------------------
\* Status, Tolerance.validate and compare_data: the inputs are drawn, then
\* the call is made
\* ------------------------------------------------------------------------
Init ==
    /\ pc = "call"
    /\ res = NoRes
    /\ \/ /\ op = "Status"
          /\ args \in [bools : BoolSeqs]
       \/ /\ op = "add"
          /\ args \in [a : StatusValues, b : StatusValues, c : StatusValues]
       \/ /\ op = "validate"
          /\ args \in [self : Tolerances, test_val : ValidateVals,
                       benchmark_val : ValidateVals, key : {"", "a"}]
       \/ /\ op = "compare_data"
          /\ args \in CompareCalls

CallStatus ==
    /\ pc = "call" /\ op = "Status"
    /\ res' = Status_init(args.bools)
    /\ pc' = "done"
    /\ UNCHANGED <<op, args>>

\* a + b, (a + b) + c and a + (b + c)
CallAdd ==
    /\ pc = "call" /\ op = "add"
    /\ res' = [ab |-> Status_add(args.a, args.b),
               ba |-> Status_add(args.b, args.a),
               aa |-> Status_add(args.a, args.a),
               ab_c |-> Status_add(Status_add(args.a, args.b), args.c),
               a_bc |-> Status_add(args.a, Status_add(args.b, args.c))]
    /\ pc' = "done"
    /\ UNCHANGED <<op, args>>

CallValidate ==
    /\ pc = "call" /\ op = "validate"
    /\ res' = validate(args.self, args.test_val, args.benchmark_val, args.key)
    /\ pc' = "done"
    /\ UNCHANGED <<op, args>>

CallCompare ==
    /\ pc = "call" /\ op = "compare_data"
    /\ res' = compare_data(args.benchmark, args.test, args.default_tolerance,
                           args.tolerances, args.ignore_fields)
    /\ pc' = "done"
    /\ UNCHANGED <<op, args>>

Next == CallStatus \/ CallAdd \/ CallValidate \/ CallCompare

Spec == Init /\ [][Next]_vars

\* ------------------------------------------------------------------------
\* extract_tagged_data: the file is opened, then read line by line
\* ------------------------------------------------------------------------
InitTagged ==
    /\ pc = "open"
    /\ op = "extract_tagged_data"
    /\ args \in [data_tag : {DataTag}, exists : BOOLEAN, line : {<<>>}, nlines : {0}]
    /\ res = [exc |-> "", data |-> EmptyDict]

\* "if not os.path.exists(filename): raise exceptions.RunError(err)"
TaggedOpen ==
    /\ pc = "open"
    /\ IF args.exists
       THEN pc' = "loop" /\ res' = res
       ELSE pc' = "done" /\ res' = [res EXCEPT !.exc = "RunError"]
    /\ UNCHANGED <<op, args>>

\* one iteration of "for line in data_file.readlines()"
TaggedReadLine ==
    /\ pc = "loop"
    /\ args.nlines < MaxLines
    /\ \E line \in TaggedLines :
         /\ args' = [args EXCEPT !.line = line, !.nlines = @ + 1]
         /\ res' = extract_tagged_line(args.data_tag, res.data, line)
         /\ pc' = IF res'.exc # "" THEN "done" ELSE "loop"
    /\ UNCHANGED op

\* the end of the file: the entries are converted to tuples and returned
TaggedReturn ==
    /\ pc = "loop"
    /\ pc' = "done"
    /\ UNCHANGED <<op, args, res>>

NextTagged == TaggedOpen \/ TaggedReadLine \/ TaggedReturn

SpecTagged == InitTagged /\ [][NextTagged]_vars

\* ------------------------------------------------------------------------
\* dict_table_string
\* ------------------------------------------------------------------------
InitTable ==
    /\ pc = "call"
    /\ res = NoRes
    /\ op = "dict_table_string"
    /\ args \in [table_string : TableStrings]

CallTable ==
    /\ pc = "call" /\ op = "dict_table_string"
    /\ res' = dict_table_string(args.table_string)
    /\ pc' = "done"
    /\ UNCHANGED <<op, args>>

NextTable == CallTable

SpecTable == InitTable /\ [][NextTable]_vars

\* ------------------------------------------------------------------------
\* Properties
\* ------------------------------------------------------------------------
Done(o) == pc = "done" /\ op = o

\* ignore_fields names at least one field
IgnoreNonEmpty == args.ignore_fields.given /\ args.ignore_fields.fields # <<>>

\* a threshold that is absent, zero or positive
NonNegThr(thr) == ~thr.set \/ thr.n >= 0
NonNegTol(tol) == NonNegThr(tol.absolute) /\ NonNegThr(tol.relative)

\* a threshold that takes part in validate and is positive
PosOrOff(thr, finite) == Truthy(thr) => (finite /\ thr.n > 0)

\* a finite number or a string
PlainVal(v) == v.t \in {"num", "str"}

PlainDataSet(d) == \A k \in DOMAIN d : \A i \in DOMAIN d[k] : PlainVal(d[k][i])

PassResult(r) ==
    r.exc = "" /\ r.comparable /\ r.status = StatusPass /\ r.msg = <<>>

\* C1 as claimed: compare_data of two identical DataSets returns
\* (true, Pass, "") for every DataSet, default Tolerance and ToleranceTable.
C1_AsClaimed ==
    (Done("compare_data") /\ ~IgnoreNonEmpty /\ args.benchmark = args.test)
        => PassResult(res)

\* C1 amended: compare_data of two identical DataSets whose values are finite
\* numbers or strings returns (true, Pass, "") for every default Tolerance and
\* ToleranceTable whose thresholds are absent, zero or positive.
C1_IdenticalPass ==
    (/\ Done("compare_data") /\ ~IgnoreNonEmpty
     /\ args.benchmark = args.test
     /\ PlainDataSet(args.benchmark)
     /\ NonNegTol(args.default_tolerance)
     /\ \A k \in DOMAIN args.tolerances : NonNegTol(args.tolerances[k]))
        => PassResult(res)

C1_Witness ==
    /\ Done("compare_data") /\ ~IgnoreNonEmpty
    /\ args.benchmark = [k \in {"a", "b"} |-> IF k = "a" THEN <<StrX>> ELSE <<Num(1)>>]
    /\ args.test = args.benchmark
    /\ args.default_tolerance = Tolerance(Thr(1), None)
    /\ PassResult(res)
    /\ res.calls = 2

SameShape(benchmark, test) ==
    /\ DOMAIN benchmark = DOMAIN test
    /\ \A k \in DOMAIN benchmark : Len(benchmark[k]) = Len(test[k])

\* C2: compare_data reports comparable = true iff the two DataSets have the
\* same field names and sequences of equal length for every field; when they
\* are not comparable it returns (false, Fail, "Different sets of data
\* extracted from benchmark and test.") and validate is not called.
C2_ShapeCheck ==
    (Done("compare_data") /\ ~IgnoreNonEmpty) =>
        /\ res.exc = ""
        /\ res.comparable <=> SameShape(args.benchmark, args.test)
        /\ ~res.comparable =>
              /\ res.status = StatusFail
              /\ res.msg = DifferentSetsMsg
              /\ res.calls = 0

C2_Witness ==
    /\ Done("compare_data") /\ ~IgnoreNonEmpty
    /\ DOMAIN args.benchmark = {"a", "b"}
    /\ DOMAIN args.test = {"a", "b"}
    /\ Len(args.benchmark["b"]) # Len(args.test["b"])
    /\ args.benchmark["a"] = args.test["a"]
    /\ ~res.comparable
    /\ res.status = StatusFail
    /\ res.calls = 0

\* the DataSet without the fields named in the list
WithoutFields(d, fields) ==
    [k \in DOMAIN d \ {fields[i] : i \in DOMAIN fields} |-> d[k]]

\* C3: with a non-empty ignore_fields, compare_data removes the named fields
\* from both DataSets (an absent field is a no-op) and returns the
\* (comparable, status, message) of comparing what is left.
C3_IgnoreFields ==
    (Done("compare_data") /\ IgnoreNonEmpty) =>
        /\ res.exc = ""
        /\ res = compare_data(WithoutFields(args.benchmark, args.ignore_fields.fields),
                              WithoutFields(args.test, args.ignore_fields.fields),
                              args.default_tolerance, args.tolerances, NoFields)

\* C4 as claimed: validate(x, x) is Pass for any numeric x and any Tolerance.
C4_AsClaimed ==
    (Done("validate") /\ IsFloat(args.test_val) /\ args.test_val = args.benchmark_val)
        => res.status = StatusPass

\* C4 amended: validate(x, x) on a float x is Pass exactly when x is not NaN
\* and every threshold that is set to a non-zero number is positive and x is
\* finite; in particular it is Pass for every finite x and every Tolerance
\* whose thresholds are absent, zero or positive.  Otherwise it is Fail.
C4_SameValue ==
    (Done("validate") /\ IsFloat(args.test_val) /\ args.test_val = args.benchmark_val)
        => /\ res.status \in {StatusPass, StatusFail}
           /\ res.status = StatusPass <=>
                 /\ args.test_val.t # "nan"
                 /\ PosOrOff(args.self.absolute, args.test_val.t = "num")
                 /\ PosOrOff(args.self.relative, args.test_val.t = "num")

C4_Witness ==
    /\ Done("validate")
    /\ args.test_val = Num(1) /\ args.benchmark_val = Num(1)
    /\ args.self = Tolerance(Thr(1), Thr(1))
    /\ res.status = StatusPass

\* C5 as claimed: with benchmark value 0, a test value of 0 yields Pass, and
\* a test value other than 0 yields Fail whenever a relative threshold is
\* set, to whatever number.
C5_AsClaimed ==
    (Done("validate") /\ args.benchmark_val = Num(0) /\ IsFloat(args.test_val)) =>
        /\ args.test_val = Num(0) => res.status = StatusPass
        /\ (args.test_val # Num(0) /\ args.self.relative.set) => res.status = StatusFail

\* C5 amended: with benchmark value 0, a test value of 0 yields Pass exactly
\* when no threshold is set to a negative number (else Fail); a test value
\* other than 0 yields Fail whenever the relative threshold is set to a
\* non-zero number, and a relative threshold of 0 is not checked: with it,
\* and no non-zero absolute threshold, a test value that is not NaN passes.
C5_ZeroBenchmark ==
    (Done("validate") /\ args.benchmark_val = Num(0) /\ IsFloat(args.test_val)) =>
        /\ res.status \in {StatusPass, StatusFail}
        /\ args.test_val = Num(0) =>
              (res.status = StatusPass <=> NonNegTol(args.self))
        /\ (args.test_val # Num(0) /\ Truthy(args.self.relative))
              => res.status = StatusFail
        /\ (/\ args.test_val # Num(0) /\ args.test_val # NaN
            /\ args.self.relative = Thr(0) /\ ~Truthy(args.self.absolute))
              => res.status = StatusPass

C5_Witness ==
    /\ Done("validate")
    /\ args.benchmark_val = Num(0) /\ args.test_val = Num(1)
    /\ args.self = Tolerance(None, Thr(MaxThr))
    /\ res.status = StatusFail
    /\ res.msg = <<"relative error ", "%.2e", " greater than ", "%.2e", ".">>

MaxStatus(a, b) ==
    CHOOSE m \in {a, b} : m >= a /\ m >= b

\* C8: a + b is the maximum of the two statuses under Pass < Warning < Fail;
\* + is commutative, associative and idempotent, Pass is its identity and
\* Fail is absorbing.
C8_StatusAdd ==
    Done("add") =>
        /\ res.ab = MaxStatus(args.a, args.b)
        /\ res.ab = res.ba
        /\ res.ab_c = res.a_bc
        /\ res.aa = args.a
        /\ args.a = StatusPass => res.ab = args.b /\ res.ba = args.b
        /\ args.a = StatusFail => res.ab = StatusFail /\ res.ba = StatusFail

C8_Witness ==
    /\ Done("add")
    /\ args.a = StatusPartial /\ args.b = StatusFail /\ args.c = StatusPass
    /\ res.ab = StatusFail /\ res.ab_c = StatusFail

NumTrue(bools) == Cardinality({i \in DOMAIN bools : bools[i]})

\* C9: Status(bools) of a non-empty collection is Pass iff all are true, Fail
\* iff none is true, and Warning otherwise.
C9_StatusInit ==
    (Done("Status") /\ args.bools # <<>>) =>
        /\ res = StatusPass <=> NumTrue(args.bools) = Len(args.bools)
        /\ res = StatusFail <=> NumTrue(args.bools) = 0
        /\ res = StatusPartial <=>
              (0 < NumTrue(args.bools) /\ NumTrue(args.bools) < Len(args.bools))

C9_Witness ==
    /\ Done("Status")
    /\ args.bools = <<TRUE, FALSE, TRUE>>
    /\ res = StatusPartial

\* the positions of the benchmark whose comparison does not pass
FailingPositions ==
    {p \in {<<k, i>> : k \in DOMAIN args.benchmark, i \in 1..MaxLen} :
        /\ p[2] <= Len(args.benchmark[p[1]])
        /\ ~passed(validate(TolFor(p[1], args.default_tolerance, args.tolerances),
                            args.test[p[1]][p[2]], args.benchmark[p[1]][p[2]],
                            p[1]).status)}

\* C10: the status returned by validate and by compare_data is Pass or Fail,
\* never Warning; for comparable inputs it is Fail exactly when some
\* position's comparison does not pass, which is exactly when the message is
\* not empty.
C10_NeverWarning ==
    /\ Done("validate") => res.status \in {StatusPass, StatusFail}
    /\ (Done("compare_data") /\ res.exc = "") =>
          /\ res.status \in {StatusPass, StatusFail}
          /\ res.comparable =>
                /\ res.status = StatusFail <=> FailingPositions # {}
                /\ res.status = StatusFail <=> res.msg # <<>>

C10_Witness ==
    /\ Done("compare_data") /\ res.exc = "" /\ res.comparable
    /\ Cardinality(FailingPositions) = 1
    /\ res.calls = 2
    /\ res.status = StatusFail
    /\ res.msg # <<>>

\* ------------------------------------------------------------------------
\* Properties of the extraction
\* ------------------------------------------------------------------------
RECURSIVE StripWhitespace(_)
\* the line without its leading whitespace
StripWhitespace(line) ==
    IF line # <<>> /\ Head(line) \in Whitespace THEN StripWhitespace(Tail(line))
    ELSE line

\* the line begins, after leading whitespace, with the tag
BeginsWithTag(data_tag, line) ==
    LET l == StripWhitespace(line)
    IN Len(l) >= Len(data_tag) /\ SubSeq(l, 1, Len(data_tag)) = data_tag

\* the tokens of the line after the first
TokensAfterTag(line) == Tail(split(line))

NumericAt(line) == {i \in DOMAIN TokensAfterTag(line) : FloatParses(TokensAfterTag(line)[i])}

\* the position of the first numeric token after the tag
FirstNumeric(line) == CHOOSE i \in NumericAt(line) : \A j \in NumericAt(line) : i <= j

\* the field name: the tokens before the first numeric token, without a last
\* token "=" or ":", joined with "_", or "data" when none is left
FieldName(line) ==
    LET key == SubSeq(TokensAfterTag(line), 1, FirstNumeric(line) - 1)
        kept == IF key # <<>> /\ key[Len(key)] \in KeyEnd
                THEN SubSeq(key, 1, Len(key) - 1) ELSE key
    IN IF kept = <<>> THEN <<"d", "a", "t", "a">> ELSE JoinKey(kept)

FieldValue(line) == ParseFloat(TokensAfterTag(line)[FirstNumeric(line)])

\* C6: every line that begins (after leading whitespace) with the tag and
\* holds a numeric token appends that token's value to the field named by
\* the tokens between the tag and it: a last token "=" or ":" dropped, the
\* rest joined with "_", "data" when nothing is left.
C6_TaggedLine ==
    [][(/\ args'.nlines = args.nlines + 1
        /\ BeginsWithTag(args.data_tag, args'.line)
        /\ NumericAt(args'.line) # {})
       => /\ res'.exc = ""
          /\ res'.data = DictAppend(res.data, FieldName(args'.line),
                                    FieldValue(args'.line))]_vars

\* the rows of the table: the tokens of each line, numbers converted
RowsOf(table_string) ==
    [i \in DOMAIN table_string |->
        [j \in DOMAIN split(table_string[i]) |-> try_floatify(split(table_string[i])[j])]]

\* a row with no numeric token
IsHeaderRow(row) == \A j \in DOMAIN row : row[j].t = "str"

HeadersBefore(rows, i) == {h \in 1..(i - 1) : IsHeaderRow(rows[h])}

\* the active header of row i: the last header row before it
ActiveHeader(rows, i) ==
    rows[CHOOSE h \in HeadersBefore(rows, i) : \A g \in HeadersBefore(rows, i) : g <= h]

\* every data row has an active header with an entry for each of its tokens
Aligned(rows) ==
    \A i \in DOMAIN rows :
        ~IsHeaderRow(rows[i]) =>
            /\ HeadersBefore(rows, i) # {}
            /\ Len(rows[i]) <= Len(ActiveHeader(rows, i))

\* the tokens of data row i that stand under the field name, in order
RowValues(rows, i, name) ==
    IF IsHeaderRow(rows[i]) THEN <<>>
    ELSE LET at == SelectSeq([j \in DOMAIN rows[i] |-> j],
                             LAMBDA j : ActiveHeader(rows, i)[j].s = name)
         IN [k \in DOMAIN at |-> rows[i][at[k]]]

RECURSIVE Column(_, _, _)
\* the values under the field name in rows 1..n, in row order
Column(rows, n, name) ==
    IF n = 0 THEN <<>> ELSE Column(rows, n - 1, name) \o RowValues(rows, n, name)

\* the names of the header rows
HeaderNames(rows) ==
    UNION {{rows[i][j].s : j \in DOMAIN rows[i]} :
              i \in {h \in DOMAIN rows : IsHeaderRow(rows[h])}}

Floats(ints) == [i \in DOMAIN ints |-> Num(ints[i])]

====
